---- MODULE Spec2Model ----
(***************************************************************************)
(* A model of sqlj's statement construction: the placeholder rewriter      *)
(* (indexMatches, replacePlaceholder), the WHERE clause renderer           *)
(* (joinWhereClauses, buildWhereClause), the INSERT/UPDATE/SELECT builders *)
(* and the fluent QueryDB builder with Go's slice semantics.               *)
(*                                                                         *)
(* A Go string is a sequence of text atoms.  Every text that indexMatches  *)
(* scans (clause text, connectors, placeholders) is split into atoms of    *)
(* one byte each, so an index into the sequence is the byte offset plus 1. *)
(* Fixed keywords that a builder emits and nothing scans are one atom.     *)
(***************************************************************************)
EXTENDS Integers, Sequences, FiniteSets, TLC

VARIABLES
    heapC,   \* backing arrays of []WhereClause slices
    heapV,   \* backing arrays of []any slices
    heapO,   \* backing arrays of []orderBy slices
    qs,      \* the QueryDB values the caller holds, in order of creation
    call,    \* the most recent builder call and what it handed to the executor
    arg,     \* the argument of a direct call of a pure function
    res      \* the result of that call

vars == <<heapC, heapV, heapO, qs, call, arg, res>>

----------------------------------------------------------------------------
(* Bounds of the model *)

MaxTextLen == 3
MaxRepeat == 4
MaxOffset == 2
MaxClauses == 3
MaxNodes == 4
MaxFields == 3
MaxQueries == 5
MaxHeld == 3
MaxSelectClauses == 2
MaxOrder == 2
MatchingRows == 3
MaxPage == 2
MaxPageSize == 2
MaxBase == 5
UintBits == 3

----------------------------------------------------------------------------
(* Text *)

Marker == "?"
Quote == "'"
Backslash == "\\"

Digit == <<"0", "1", "2", "3", "4", "5", "6", "7", "8", "9">>

RECURSIVE Itoa(_)
Itoa(n) ==
    IF n < 10 THEN <<Digit[n + 1]>>
    ELSE Itoa(n \div 10) \o <<Digit[(n % 10) + 1]>>

Sprintf(n) == <<"$">> \o Itoa(n)

RECURSIVE Join(_, _)
Join(parts, sep) ==
    IF Len(parts) = 0 THEN <<>>
    ELSE IF Len(parts) = 1 THEN parts[1]
    ELSE parts[1] \o sep \o Join(Tail(parts), sep)

Reverse(s) == [i \in 1..Len(s) |-> s[Len(s) + 1 - i]]

----------------------------------------------------------------------------
(* indexMatches: builders.go.  Positions are byte offsets, from 0. *)

RECURSIVE indexScanEscaping(_, _, _, _, _)
indexScanEscaping(expr, i, inQuote, escaping, matches) ==
    IF i >= Len(expr) THEN matches
    ELSE LET c == expr[i + 1] IN
         indexScanEscaping(
            expr, i + 1,
            IF c = Quote /\ ~escaping THEN ~inQuote ELSE inQuote,
            c = Backslash,
            IF c = Marker /\ ~inQuote THEN Append(matches, i) ELSE matches)

indexMatchesEscaping(expr) == indexScanEscaping(expr, 0, FALSE, FALSE, <<>>)

RECURSIVE indexScan(_, _, _, _, _)
indexScan(expr, i, inQuote, escaping, matches) ==
    IF i >= Len(expr) THEN matches
    ELSE LET c == expr[i + 1] IN
         indexScan(
            expr, i + 1,
            IF c = Quote /\ ~escaping THEN ~inQuote ELSE inQuote,
            escaping,
            IF c = Marker /\ ~inQuote THEN Append(matches, i) ELSE matches)

indexMatches(expr) == indexScan(expr, 0, FALSE, FALSE, <<>>)

----------------------------------------------------------------------------
(* replacePlaceholder: builders.go.  Returns <<sql, count>>. *)

RECURSIVE replaceLoop(_, _, _, _)
replaceLoop(sql, matches, idx, offset) ==
    IF idx >= Len(matches) THEN sql
    ELSE LET match == matches[idx + 1]
             left == SubSeq(sql, 1, match)
             right == SubSeq(sql, match + 2, Len(sql))
             placeholder == (Len(matches) - idx) + offset
         IN replaceLoop(left \o Sprintf(placeholder) \o right,
                        matches, idx + 1, offset)

(* The loop that writes the placeholder in front of the marker and *)
(* leaves the marker in the text.                                  *)
RECURSIVE replaceLoopKeepingMarker(_, _, _, _)
replaceLoopKeepingMarker(sql, matches, idx, offset) ==
    IF idx >= Len(matches) THEN sql
    ELSE LET match == matches[idx + 1]
             left == SubSeq(sql, 1, match)
             right == SubSeq(sql, match + 1, Len(sql))
             placeholder == (Len(matches) - idx) + offset
         IN replaceLoopKeepingMarker(left \o Sprintf(placeholder) \o right,
                                     matches, idx + 1, offset)

replacePlaceholderKeepingMarker(expr, offset) ==
    LET matches == indexMatches(expr)
    IN <<replaceLoopKeepingMarker(expr, Reverse(matches), 0, offset), Len(matches)>>

replacePlaceholderForward(expr, offset) ==
    LET matches == indexMatches(expr)
    IN <<replaceLoop(expr, matches, 0, offset), Len(matches)>>

replacePlaceholder(expr, offset) ==
    LET matches == indexMatches(expr)
    IN <<replaceLoop(expr, Reverse(matches), 0, offset), Len(matches)>>

----------------------------------------------------------------------------
(* Direct calls of the rewriter *)

Chars == {Marker, Quote, Backslash, "a", "1"}

RECURSIVE Texts(_)
Texts(n) ==
    IF n = 0 THEN {<<>>}
    ELSE LET shorter == Texts(n - 1)
         IN shorter \cup {Append(t, c) : t \in {s \in shorter : Len(s) = n - 1},
                                          c \in Chars}

RECURSIVE Repeat(_, _)
Repeat(t, r) == IF r = 0 THEN <<>> ELSE t \o Repeat(t, r - 1)

RewriteTexts == {Repeat(t, r) : t \in Texts(MaxTextLen), r \in 1..MaxRepeat}

NoArg == [fn |-> "none"]
NoResult == [fn |-> "none"]
NoCall == [op |-> "none"]

BuilderIdle ==
    /\ heapC = <<>>
    /\ heapV = <<>>
    /\ heapO = <<>>
    /\ qs = <<>>
    /\ call = NoCall

InitRewrite ==
    /\ BuilderIdle
    /\ \E t \in RewriteTexts, o \in 0..MaxOffset :
          arg = [fn |-> "rewrite", expr |-> t, offset |-> o]
    /\ res = NoResult

CallIndexMatches ==
    /\ arg.fn = "rewrite"
    /\ res = NoResult
    /\ res' = [fn |-> "indexMatches", matches |-> indexMatches(arg.expr)]
    /\ UNCHANGED <<heapC, heapV, heapO, qs, call, arg>>

CallReplacePlaceholder ==
    /\ arg.fn = "rewrite"
    /\ res = NoResult
    /\ LET r == replacePlaceholder(arg.expr, arg.offset)
       IN res' = [fn |-> "replacePlaceholder", sql |-> r[1], count |-> r[2]]
    /\ UNCHANGED <<heapC, heapV, heapO, qs, call, arg>>

NextRewrite == CallIndexMatches \/ CallReplacePlaceholder

SpecRewrite == InitRewrite /\ [][NextRewrite]_vars

----------------------------------------------------------------------------
(* WhereClause, SimpleExpr, NestedExpr: fields.go *)

AND_TYPE == <<"A", "N", "D">>
OR_TYPE == <<"O", "R">>

SimpleExpr(text) == [kind |-> "SimpleExpr", expr |-> text]
NestedExpr(clauses) == [kind |-> "NestedExpr", exprs |-> clauses]
WhereClause(type, expr) == [Type |-> type, Expr |-> expr]

parens(expr) == Join(<<<<"(">>, expr, <<")">>>>, <<>>)

columnEq(column) == column \o <<" ", "=", " ", "?">>

(* sql[1:] of an empty slice is out of range: Go panics, and the panic   *)
(* unwinds every caller.  Panic stands for a call that did not return.  *)
Panic == <<"panic: slice bounds out of range [1:0]">>

(* joinWhereClauses and Expr.String call each other: a NestedExpr renders *)
(* its own clauses with joinWhereClauses.                                 *)
RECURSIVE joinWhereClauses(_)
RECURSIVE exprString(_)

exprStringOwnNumbers(e) ==
    IF e.kind = "SimpleExpr" THEN e.expr
    ELSE LET inner == joinWhereClauses(e.exprs)
         IN IF inner = Panic THEN Panic
            ELSE parens(replacePlaceholder(inner, 0)[1])

exprString(e) ==
    IF e.kind = "SimpleExpr" THEN e.expr
    ELSE LET inner == joinWhereClauses(e.exprs)
         IN IF inner = Panic THEN Panic ELSE parens(inner)

(* Joining the whole of sql, its first and empty slot included. *)
joinWhereClausesWhole(clauses) ==
    LET sql == [i \in 1..(Len(clauses) * 2) |->
                   IF i % 2 = 1
                   THEN (IF i = 1 THEN <<>> ELSE clauses[(i + 1) \div 2].Type)
                   ELSE exprString(clauses[i \div 2].Expr)]
    IN IF Len(sql) < 1 \/ \E i \in 1..Len(sql) : sql[i] = Panic
       THEN Panic
       ELSE Join(sql, <<" ">>)

joinWhereClauses(clauses) ==
    LET sql == [i \in 1..(Len(clauses) * 2) |->
                   IF i % 2 = 1
                   THEN (IF i = 1 THEN <<>> ELSE clauses[(i + 1) \div 2].Type)
                   ELSE exprString(clauses[i \div 2].Expr)]
    IN IF Len(sql) < 1 \/ \E i \in 1..Len(sql) : sql[i] = Panic
       THEN Panic
       ELSE Join(Tail(sql), <<" ">>)

buildWhereClauseFromOne(clauses) ==
    IF Len(clauses) = 0 THEN <<<<>>, 0>>
    ELSE LET sql == joinWhereClauses(clauses)
         IN IF sql = Panic THEN <<Panic, 0>> ELSE replacePlaceholder(sql, 1)

buildWhereClause(clauses) ==
    IF Len(clauses) = 0 THEN <<<<>>, 0>>
    ELSE LET sql == joinWhereClauses(clauses)
         IN IF sql = Panic THEN <<Panic, 0>> ELSE replacePlaceholder(sql, 0)

----------------------------------------------------------------------------
(* Direct calls of buildWhereClause *)

FlatTexts == {<<"a", "?">>, <<"b", "'", "?", "'">>, <<"'">>}
NestTexts == {<<"a", "?">>, <<"c">>}
Types == {AND_TYPE, OR_TYPE}

RECURSIVE FlatLists(_)
FlatLists(n) ==
    IF n = 0 THEN {<<>>}
    ELSE LET shorter == FlatLists(n - 1)
         IN shorter \cup
            {Append(l, WhereClause(ty, SimpleExpr(t))) :
                l \in {s \in shorter : Len(s) = n - 1}, ty \in Types, t \in FlatTexts}

(* Clause lists holding n clauses in all, nested ones included, every *)
(* NestedExpr with a clause in it.                                    *)
RECURSIVE Forests(_)
RECURSIVE Trees(_)

Trees(k) ==
    IF k = 1
    THEN {WhereClause(ty, SimpleExpr(t)) : ty \in Types, t \in NestTexts}
    ELSE {WhereClause(ty, NestedExpr(f)) : ty \in Types, f \in Forests(k - 1)}

Forests(n) ==
    IF n = 0 THEN {<<>>}
    ELSE UNION {{<<c>> \o rest : c \in Trees(k), rest \in Forests(n - k)} : k \in 1..n}

(* Clause lists with a NestedExpr that holds no clause. *)
EmptyNested ==
    {Append(l, WhereClause(ty, NestedExpr(<<>>))) : l \in FlatLists(1), ty \in Types}
    \cup {<<WhereClause(ty, NestedExpr(<<WhereClause(AND_TYPE, NestedExpr(<<>>))>>))>> :
              ty \in Types}

WhereInputs ==
    FlatLists(MaxClauses) \cup UNION {Forests(n) : n \in 0..MaxNodes} \cup EmptyNested

InitWhere ==
    /\ BuilderIdle
    /\ \E cl \in WhereInputs : arg = [fn |-> "where", clauses |-> cl]
    /\ res = NoResult

CallBuildWhereClause ==
    /\ arg.fn = "where"
    /\ res = NoResult
    /\ LET r == buildWhereClause(arg.clauses)
       IN res' = [fn |-> "buildWhereClause", panic |-> r[1] = Panic,
                  sql |-> r[1], count |-> r[2]]
    /\ UNCHANGED <<heapC, heapV, heapO, qs, call, arg>>

CallJoinWhereClauses ==
    /\ arg.fn = "where"
    /\ res = NoResult
    /\ LET r == joinWhereClauses(arg.clauses)
       IN res' = [fn |-> "joinWhereClauses", panic |-> r = Panic, sql |-> r]
    /\ UNCHANGED <<heapC, heapV, heapO, qs, call, arg>>

NextWhere == CallBuildWhereClause \/ CallJoinWhereClauses

SpecWhere == InitWhere /\ [][NextWhere]_vars

----------------------------------------------------------------------------
(* What the claims say about the rewriter, stated without the code's loops *)

(* The 1-based places of the markers outside single quotes: a marker with *)
(* an even number of quote characters before it.                          *)
UnquotedMarkers(text) ==
    {i \in 1..Len(text) :
        /\ text[i] = Marker
        /\ Cardinality({j \in 1..(i - 1) : text[j] = Quote}) % 2 = 0}

RECURSIVE Flatten(_)
Flatten(pieces) ==
    IF Len(pieces) = 0 THEN <<>> ELSE pieces[1] \o Flatten(Tail(pieces))

(* text with its j-th unquoted marker replaced by $(offset + j) *)
ExpectedRewrite(text, offset) ==
    LET um == UnquotedMarkers(text)
    IN Flatten([i \in 1..Len(text) |->
           IF i \in um
           THEN Sprintf(offset + Cardinality({j \in um : j <= i}))
           ELSE <<text[i]>>])

IsDigit(c) == \E d \in 1..10 : Digit[d] = c
DigitValue(c) == (CHOOSE d \in 1..10 : Digit[d] = c) - 1

RECURSIVE Atoi(_)
Atoi(digits) ==
    IF Len(digits) = 0 THEN 0
    ELSE Atoi(SubSeq(digits, 1, Len(digits) - 1)) * 10 + DigitValue(digits[Len(digits)])

(* The last place of the run of digits that starts at place i. *)
RECURSIVE DigitRunEnd(_, _)
DigitRunEnd(sql, i) ==
    IF i <= Len(sql) /\ IsDigit(sql[i]) THEN DigitRunEnd(sql, i + 1) ELSE i - 1

(* The $<digits> tokens of sql from place i on, as [at, upto, num]. *)
RECURSIVE PlaceholdersFrom(_, _)
PlaceholdersFrom(sql, i) ==
    IF i > Len(sql) THEN <<>>
    ELSE IF sql[i] = "$"
         THEN LET e == DigitRunEnd(sql, i + 1)
              IN <<[at |-> i, upto |-> e, num |-> Atoi(SubSeq(sql, i + 1, e))]>>
                 \o PlaceholdersFrom(sql, e + 1)
         ELSE PlaceholdersFrom(sql, i + 1)

Placeholders(sql) == PlaceholdersFrom(sql, 1)
PlaceholderNumbers(sql) == [i \in 1..Len(Placeholders(sql)) |-> Placeholders(sql)[i].num]

CountTo(k) == [i \in 1..k |-> i]

(* C5: indexMatches returns, in increasing order, exactly the byte offsets *)
(* of the markers that have an even number of quote characters before     *)
(* them; a backslash before a quote changes nothing.                      *)
C5_IndexMatchesUnquoted ==
    res.fn = "indexMatches" =>
        LET m == res.matches
        IN /\ {m[k] + 1 : k \in 1..Len(m)} = UnquotedMarkers(arg.expr)
           /\ \A k \in 1..(Len(m) - 1) : m[k] < m[k + 1]

(* a text with a quoted marker, a marker after a backslash-quote, and a *)
(* marker that is matched                                               *)
C5_Witness ==
    /\ res.fn = "indexMatches"
    /\ Len(res.matches) > 0
    /\ \E i \in 1..Len(arg.expr) :
          arg.expr[i] = Marker /\ i \notin UnquotedMarkers(arg.expr)
    /\ \E i \in 1..(Len(arg.expr) - 1) :
          arg.expr[i] = Backslash /\ arg.expr[i + 1] = Quote

(* C6: replacePlaceholder(text, offset) replaces the j-th unquoted marker *)
(* by $(offset + j), keeps every other byte, and returns the number of    *)
(* markers replaced; without a marker the text comes back unchanged.      *)
C6_ReplaceSequential ==
    res.fn = "replacePlaceholder" =>
        /\ res.sql = ExpectedRewrite(arg.expr, arg.offset)
        /\ res.count = Cardinality(UnquotedMarkers(arg.expr))
        /\ (UnquotedMarkers(arg.expr) = {} => res.sql = arg.expr /\ res.count = 0)

(* ten or more markers behind a non-zero offset: placeholders of one, two *)
(* digits in the same text                                                *)
C6_Witness ==
    /\ res.fn = "replacePlaceholder"
    /\ res.count >= 10
    /\ arg.offset > 0
    /\ PlaceholderNumbers(res.sql) =
          [j \in 1..res.count |-> arg.offset + j]

----------------------------------------------------------------------------
(* What the claims say about buildWhereClause *)

AllSimple(clauses) == \A i \in 1..Len(clauses) : clauses[i].Expr.kind = "SimpleExpr"

(* The clause texts joined by their connectors, the first connector left out. *)
JoinedText(clauses) ==
    Flatten([i \in 1..Len(clauses) |->
        IF i = 1 THEN clauses[i].Expr.expr
        ELSE <<" ">> \o clauses[i].Type \o <<" ">> \o clauses[i].Expr.expr])

(* C3: for a list of Simple clauses whose joined text has k unquoted      *)
(* markers, buildWhereClause returns a text whose placeholders are, from  *)
(* left to right, $1 .. $k, and the count k; for the empty list it        *)
(* returns the empty string and 0.                                        *)
C3_SimpleClausesNumbered ==
    (res.fn = "buildWhereClause" /\ AllSimple(arg.clauses)) =>
        IF Len(arg.clauses) = 0
        THEN res.sql = <<>> /\ res.count = 0
        ELSE LET k == Cardinality(UnquotedMarkers(JoinedText(arg.clauses)))
             IN /\ ~res.panic
                /\ res.count = k
                /\ PlaceholderNumbers(res.sql) = CountTo(k)

(* several clauses, several placeholders, and a marker left alone in quotes *)
C3_Witness ==
    /\ res.fn = "buildWhereClause"
    /\ AllSimple(arg.clauses)
    /\ Len(arg.clauses) >= 2
    /\ res.count >= 2
    /\ \E i \in 1..Len(res.sql) : res.sql[i] = Marker

RECURSIVE HasQuote(_)
HasQuote(clauses) ==
    \E i \in 1..Len(clauses) :
        IF clauses[i].Expr.kind = "SimpleExpr"
        THEN \E j \in 1..Len(clauses[i].Expr.expr) : clauses[i].Expr.expr[j] = Quote
        ELSE HasQuote(clauses[i].Expr.exprs)

(* Rendering with the running number handed from clause to clause and in *)
(* and out of each Nested expression: <<text, markers so far>>.          *)
RECURSIVE ThreadList(_, _)
RECURSIVE ThreadExpr(_, _)

ThreadExpr(e, n) ==
    IF e.kind = "SimpleExpr"
    THEN <<ExpectedRewrite(e.expr, n), n + Cardinality(UnquotedMarkers(e.expr))>>
    ELSE LET r == ThreadList(e.exprs, n)
         IN <<<<"(">> \o r[1] \o <<")">>, r[2]>>

ThreadList(clauses, n) ==
    IF Len(clauses) = 0 THEN <<<<>>, n>>
    ELSE LET front == ThreadList(SubSeq(clauses, 1, Len(clauses) - 1), n)
             last == clauses[Len(clauses)]
             e == ThreadExpr(last.Expr, front[2])
         IN <<IF Len(clauses) = 1 THEN e[1]
              ELSE front[1] \o <<" ">> \o last.Type \o <<" ">> \o e[1],
              e[2]>>

(* C4: when buildWhereClause returns, the markers of Nested expressions   *)
(* are numbered in one sequence with those around them: the text is the   *)
(* clauses rendered in order, each Nested one in parentheses, the number  *)
(* running on from the clause before into the Nested one and on after it, *)
(* and the count is the total over all levels.                            *)
C4_NestedNumberedThrough ==
    (res.fn = "buildWhereClause" /\ ~res.panic /\ ~HasQuote(arg.clauses)) =>
        LET r == ThreadList(arg.clauses, 0)
        IN res.sql = r[1] /\ res.count = r[2]

(* a = ? AND (a = ? OR a = ?), in the model's short texts *)
C4_Witness ==
    /\ res.fn = "buildWhereClause"
    /\ arg.clauses =
          <<WhereClause(AND_TYPE, SimpleExpr(<<"a", "?">>)),
            WhereClause(AND_TYPE, NestedExpr(
                <<WhereClause(AND_TYPE, SimpleExpr(<<"a", "?">>)),
                  WhereClause(OR_TYPE, SimpleExpr(<<"a", "?">>))>>))>>
    /\ res.sql = <<"a", "$", "1", " ", "A", "N", "D", " ", "(", "a", "$", "2",
                   " ", "O", "R", " ", "a", "$", "3", ")">>
    /\ res.count = 3

----------------------------------------------------------------------------
(* Field, BasicField, LiteralField: fields.go *)

Nil == "nil"

BasicField(name, value) == [kind |-> "BasicField", Name |-> name, Value |-> value]
LiteralField(name, value) == [kind |-> "LiteralField", Name |-> name, Value |-> value]

GetName(f) == f.Name
GetValue(f) == IF f.kind = "BasicField" THEN f.Value ELSE Nil
GetPlaceholder(f, idx) == IF f.kind = "BasicField" THEN Sprintf(idx) ELSE f.Value
IsLiteral(f) == f.kind = "LiteralField"

(* buildInsertSQL: builders.go.  The loop leaves <<names, placeholders>>. *)
RECURSIVE insertLoop(_, _, _, _, _)
insertLoop(fields, idx, n, names, placeholders) ==
    IF idx >= Len(fields) THEN <<names, placeholders>>
    ELSE LET f == fields[idx + 1]
         IN insertLoop(fields, idx + 1,
                       IF ~IsLiteral(f) THEN n + 1 ELSE n,
                       Append(names, GetName(f)),
                       Append(placeholders, GetPlaceholder(f, n + 1)))

insertSQL(options, cols) ==
    Join(<<<<"INSERT INTO ">>,
           options.From,
           <<" (">>,
           Join(cols[1], <<", ">>),
           <<") VALUES (">>,
           Join(cols[2], <<", ">>),
           <<") RETURNING ">>,
           Join(options.Returning, <<", ">>)>>,
         <<>>)

buildInsertSQLByIndex(options) ==
    insertSQL(options,
              <<[i \in 1..Len(options.Fields) |-> GetName(options.Fields[i])],
                [i \in 1..Len(options.Fields) |-> GetPlaceholder(options.Fields[i], i)]>>)

buildInsertSQL(options) ==
    insertSQL(options, insertLoop(options.Fields, 0, 0, <<>>, <<>>))

(* buildUpdateSQL: builders.go *)
buildUpdateSQL(options) ==
    LET setExpressions ==
            [i \in 1..Len(options.Fields) |->
                GetName(options.Fields[i]) \o <<" = ">>
                    \o GetPlaceholder(options.Fields[i], (i - 1) + 1)]
    IN Join(<<<<"UPDATE ">>,
              options.From,
              <<" SET ">>,
              Join(setExpressions, <<", ">>),
              <<" WHERE id = ">> \o Sprintf(Len(options.Fields) + 1) \o <<" ">>,
              <<"RETURNING ">>,
              Join(options.Returning, <<", ">>)>>,
            <<>>)

(* pluckNames, pluckValues: fields.go *)
pluckNames(fields) == [i \in 1..Len(fields) |-> GetName(fields[i])]

RECURSIVE pluckValuesLoop(_, _, _)
pluckValuesLoop(fields, idx, values) ==
    IF idx >= Len(fields) THEN values
    ELSE LET v == GetValue(fields[idx + 1])
         IN pluckValuesLoop(fields, idx + 1,
                            IF v # Nil THEN Append(values, v) ELSE values)

pluckValues(fields) == pluckValuesLoop(fields, 0, <<>>)

(* dedupeFields: sqlj.go.  indexedFields is the map the first loop fills: *)
(* a later field with a name replaces the earlier one.                    *)
RECURSIVE indexFieldsFirst(_, _, _)
indexFieldsFirst(fields, idx, indexedFields) ==
    IF idx >= Len(fields) THEN indexedFields
    ELSE LET f == fields[idx + 1]
         IN indexFieldsFirst(fields, idx + 1,
               IF GetName(f) \in DOMAIN indexedFields THEN indexedFields
               ELSE [n \in DOMAIN indexedFields \cup {GetName(f)} |->
                        IF n = GetName(f) THEN f ELSE indexedFields[n]])

RECURSIVE indexFields(_, _, _)
indexFields(fields, idx, indexedFields) ==
    IF idx >= Len(fields) THEN indexedFields
    ELSE LET f == fields[idx + 1]
         IN indexFields(fields, idx + 1,
               [n \in DOMAIN indexedFields \cup {GetName(f)} |->
                   IF n = GetName(f) THEN f ELSE indexedFields[n]])

(* The orders in which `for _, v := range indexedFields` may visit the *)
(* keys of a map: Go leaves the order unspecified.                     *)
RangeOrders(keys) ==
    {o \in [1..Cardinality(keys) -> keys] :
        \A i, j \in 1..Cardinality(keys) : i # j => o[i] # o[j]}

(* dedupeFields, given the order its second loop visits the map in. *)
dedupeFieldsFirstWins(fields, order) ==
    LET indexedFields == indexFieldsFirst(fields, 0, <<>>)
    IN [n \in 1..Len(order) |-> indexedFields[order[n]]]

dedupeFields(fields, order) ==
    LET indexedFields == indexFields(fields, 0, <<>>)
    IN [n \in 1..Len(order) |-> indexedFields[order[n]]]

NamesOf(fields) == {GetName(fields[i]) : i \in 1..Len(fields)}

(* filterFields: sqlj.go *)
Contains(s, v) == \E i \in 1..Len(s) : s[i] = v

RECURSIVE filterLoop(_, _, _, _)
filterLoop(fields, skipColumns, idx, outFields) ==
    IF idx >= Len(fields) THEN outFields
    ELSE LET f == fields[idx + 1]
         IN filterLoop(fields, skipColumns, idx + 1,
                       IF Contains(skipColumns, GetName(f)) THEN outFields
                       ELSE Append(outFields, f))

filterFieldsFirstSkip(fields, skipColumns) ==
    filterLoop(fields,
               IF Len(skipColumns) = 0 THEN <<>> ELSE <<skipColumns[1]>>,
               0, <<>>)

filterFields(fields, skipColumns) == filterLoop(fields, skipColumns, 0, <<>>)

(* extractFields, checkValueType, getSliceStructInstance: structs.go.    *)
(* A destination v handed to a handler as `any` is known by its dynamic  *)
(* type: the nil interface, a struct passed by value, a pointer to a     *)
(* struct or a pointer to a slice of structs.  The struct's Go fields    *)
(* carry a db tag each, and a BasicField holds the address of the Go     *)
(* field.                                                                *)
DestTypes == {"nil", "struct", "*struct", "*[]struct"}

extractFields(v) ==
    LET tagged == SelectSeq(v.fields, LAMBDA g : g.db # <<>> /\ g.db # <<"-">>)
    IN [n \in 1..Len(tagged) |-> BasicField(tagged[n].db, tagged[n].addr)]

(* reflect.TypeOf(nil) is the nil Type, and t.Kind() on it is a nil  *)
(* pointer dereference: the call does not return, and the panic     *)
(* unwinds the handler that made it.                                *)
NilPanic == "panic: runtime error: invalid memory address or nil pointer dereference"

checkValueType(v) ==
    IF v.type = "nil" THEN NilPanic
    ELSE IF v.type = "*struct" THEN ""
    ELSE "Value must be a pointer to a struct"

(* reflect.ValueOf(nil) is the zero Value, whose Kind is Invalid: no panic. *)
getSliceStructInstance(v) ==
    IF v.type = "*[]struct"
    THEN [err |-> "", structInstance |-> [type |-> "*struct", fields |-> v.fields]]
    ELSE [err |-> "v must be a pointer to a slice of structs"]

(* DB.GetIDName: the configured identifier column, id when none is set. *)
GetIDName(jdb) == IF jdb.IDColumn = <<>> THEN <<"i", "d">> ELSE jdb.IDColumn

(* buildDeleteSQL: builders.go *)
buildDeleteSQL(options) ==
    LET sql == Join(<<<<"DELETE FROM ">>, options.From>>, <<>>)
    IN IF Len(options.Where) > 0
       THEN Join(<<sql, <<" WHERE ">>, buildWhereClause(options.Where)[1]>>, <<>>)
       ELSE sql

(* DB.Delete: what it hands to Exec. *)
Delete(jdb, table, id) ==
    [err |-> "", executed |-> TRUE,
     sql |-> buildDeleteSQL([From |-> table,
                             Where |-> <<WhereClause(AND_TYPE,
                                             SimpleExpr(columnEq(GetIDName(jdb))))>>]),
     values |-> <<id>>]

(* scanIntoStruct: structs.go.  The returned row's columns are scanned,  *)
(* in order, into the addresses of the Go fields that carry a db tag.   *)
scanIntoStruct(dest) ==
    LET tagged == SelectSeq(dest.fields, LAMBDA g : g.db # <<>> /\ g.db # <<"-">>)
    IN [n \in 1..Len(tagged) |-> tagged[n].addr]

(* DB.InsertWithOptions, DB.UpdateWithOptions; order is the order in which *)
(* dedupeFields happens to range over its map.  What they hand to GetRow   *)
(* and what GetRow scans the row into is the result.                       *)
InsertWithOptionsReturningInserted(jdb, table, options, v, order) ==
    IF checkValueType(v) # ""
    THEN [err |-> checkValueType(v), executed |-> FALSE]
    ELSE LET allFields == extractFields(v)
             fields == dedupeFields(allFields \o options.Fields, order)
             filteredFields == filterFields(fields, jdb.SkipOnInsert)
             returnColumns == pluckNames(filteredFields)
             sql == buildInsertSQL([From |-> table, Fields |-> filteredFields,
                                    Returning |-> returnColumns])
             values == pluckValues(filteredFields)
         IN [err |-> "", executed |-> TRUE, sql |-> sql, values |-> values,
             fields |-> filteredFields, scanned |-> scanIntoStruct(v)]

InsertWithOptions(jdb, table, options, v, order) ==
    IF checkValueType(v) # ""
    THEN [err |-> checkValueType(v), executed |-> FALSE]
    ELSE LET allFields == extractFields(v)
             fields == dedupeFields(allFields \o options.Fields, order)
             filteredFields == filterFields(fields, jdb.SkipOnInsert)
             returnColumns == pluckNames(allFields)
             sql == buildInsertSQL([From |-> table, Fields |-> filteredFields,
                                    Returning |-> returnColumns])
             values == pluckValues(filteredFields)
         IN [err |-> "", executed |-> TRUE, sql |-> sql, values |-> values,
             fields |-> filteredFields, scanned |-> scanIntoStruct(v)]

UpdateWithOptions(jdb, table, id, options, v, order) ==
    IF checkValueType(v) # ""
    THEN [err |-> checkValueType(v), executed |-> FALSE]
    ELSE LET allFields == extractFields(v)
             fields == dedupeFields(allFields \o options.Fields, order)
             filteredFields == filterFields(fields, jdb.SkipOnInsert)
             returnColumns == pluckNames(allFields)
             sql == buildUpdateSQL([From |-> table, Fields |-> filteredFields,
                                    Returning |-> returnColumns])
             values == Append(pluckValues(filteredFields), id)
         IN [err |-> "", executed |-> TRUE, sql |-> sql, values |-> values,
             fields |-> filteredFields, scanned |-> scanIntoStruct(v)]

----------------------------------------------------------------------------
(* Direct calls of the INSERT and UPDATE builders *)

FieldNames == {<<"a">>, <<"b">>}
FieldValues == {"x", Nil}
RawSQL == {<<"now()">>}

Fields ==
    {BasicField(n, v) : n \in FieldNames, v \in FieldValues}
    \cup {LiteralField(n, r) : n \in FieldNames, r \in RawSQL}

RECURSIVE FieldLists(_)
FieldLists(n) ==
    IF n = 0 THEN {<<>>}
    ELSE LET shorter == FieldLists(n - 1)
         IN shorter \cup {Append(l, f) : l \in {s \in shorter : Len(s) = n - 1},
                                          f \in Fields}

InitFields ==
    /\ BuilderIdle
    /\ \E fl \in FieldLists(MaxFields), ret \in {<<<<"a">>>>, <<<<"a">>, <<"b">>>>} :
          arg = [fn |-> "fields", From |-> <<"t">>, Fields |-> fl, Returning |-> ret]
    /\ res = NoResult

CallBuildInsertSQL ==
    /\ arg.fn = "fields"
    /\ res = NoResult
    /\ res' = [fn |-> "buildInsertSQL", sql |-> buildInsertSQL(arg)]
    /\ UNCHANGED <<heapC, heapV, heapO, qs, call, arg>>

CallBuildUpdateSQL ==
    /\ arg.fn = "fields"
    /\ res = NoResult
    /\ res' = [fn |-> "buildUpdateSQL", sql |-> buildUpdateSQL(arg)]
    /\ UNCHANGED <<heapC, heapV, heapO, qs, call, arg>>

SkipLists == {<<>>, <<<<"a">>>>, <<<<"b">>, <<"a">>>>}

CallPluckValues ==
    /\ arg.fn = "fields"
    /\ res = NoResult
    /\ res' = [fn |-> "pluckValues", values |-> pluckValues(arg.Fields)]
    /\ UNCHANGED <<heapC, heapV, heapO, qs, call, arg>>

CallDedupeFields ==
    /\ arg.fn = "fields"
    /\ res = NoResult
    /\ \E order \in RangeOrders(NamesOf(arg.Fields)) :
          res' = [fn |-> "dedupeFields", fields |-> dedupeFields(arg.Fields, order)]
    /\ UNCHANGED <<heapC, heapV, heapO, qs, call, arg>>

CallFilterFields ==
    /\ arg.fn = "fields"
    /\ res = NoResult
    /\ \E skipColumns \in SkipLists :
          res' = [fn |-> "filterFields", skipColumns |-> skipColumns,
                  fields |-> filterFields(arg.Fields, skipColumns)]
    /\ UNCHANGED <<heapC, heapV, heapO, qs, call, arg>>

(* A struct with the db tags a and b and one Go field that is not stored. *)
StructFields ==
    <<[db |-> <<"a">>, addr |-> "&v.A"],
      [db |-> <<"-">>, addr |-> "&v.Hidden"],
      [db |-> <<"b">>, addr |-> "&v.B"]>>
Id == "id"

(* DB.IDColumn: unset, or the name of the identifier column. *)
IDColumns == {<<>>, <<"u", "i", "d">>}

(* The handlers, called with arg.Fields as Options.Fields. *)
DoInsertWithOptions ==
    /\ arg.fn = "fields"
    /\ res = NoResult
    /\ \E type \in DestTypes, skipColumns \in SkipLists :
       \E order \in RangeOrders(NamesOf(extractFields([fields |-> StructFields])
                                          \o arg.Fields)) :
       \E r \in {InsertWithOptions([SkipOnInsert |-> skipColumns], arg.From,
                                   [Fields |-> arg.Fields],
                                   [type |-> type, fields |-> StructFields],
                                   order)} :
          res' = [fn |-> "InsertWithOptions", skipColumns |-> skipColumns,
                  dest |-> type, ptrToStruct |-> type = "*struct", out |-> r]
    /\ UNCHANGED <<heapC, heapV, heapO, qs, call, arg>>

DoUpdateWithOptions ==
    /\ arg.fn = "fields"
    /\ res = NoResult
    /\ \E type \in DestTypes, skipColumns \in SkipLists, idColumn \in IDColumns :
       \E order \in RangeOrders(NamesOf(extractFields([fields |-> StructFields])
                                          \o arg.Fields)) :
       \E r \in {UpdateWithOptions([SkipOnInsert |-> skipColumns, IDColumn |-> idColumn],
                                   arg.From, Id,
                                   [Fields |-> arg.Fields],
                                   [type |-> type, fields |-> StructFields],
                                   order)} :
          res' = [fn |-> "UpdateWithOptions", skipColumns |-> skipColumns,
                  idColumn |-> idColumn,
                  dest |-> type, ptrToStruct |-> type = "*struct", out |-> r]
    /\ UNCHANGED <<heapC, heapV, heapO, qs, call, arg>>

DoDelete ==
    /\ arg.fn = "fields"
    /\ res = NoResult
    /\ \E idColumn \in IDColumns :
          res' = [fn |-> "Delete", idColumn |-> idColumn,
                  out |-> Delete([IDColumn |-> idColumn], arg.From, Id)]
    /\ UNCHANGED <<heapC, heapV, heapO, qs, call, arg>>

NextFields ==
    \/ DoInsertWithOptions
    \/ DoUpdateWithOptions
    \/ DoDelete
    \/ CallBuildInsertSQL
    \/ CallBuildUpdateSQL
    \/ CallPluckValues
    \/ CallDedupeFields
    \/ CallFilterFields

SpecFields == InitFields /\ [][NextFields]_vars

----------------------------------------------------------------------------
(* What the claims say about the INSERT and UPDATE builders *)

(* The place of the first atom equal to a, 0 when there is none. *)
AtomAt(sql, a) ==
    IF \E i \in 1..Len(sql) : sql[i] = a
    THEN CHOOSE i \in 1..Len(sql) : sql[i] = a /\ \A j \in 1..(i - 1) : sql[j] # a
    ELSE 0

(* The atoms strictly between the first a and the first b. *)
Between(sql, a, b) == SubSeq(sql, AtomAt(sql, a) + 1, AtomAt(sql, b) - 1)

(* A list joined with ", " taken apart again. *)
RECURSIVE SplitList(_)
SplitList(text) ==
    IF Len(text) = 0 THEN <<>>
    ELSE LET c == AtomAt(text, ", ")
         IN IF c = 0 THEN <<text>>
            ELSE <<SubSeq(text, 1, c - 1)>> \o SplitList(SubSeq(text, c + 1, Len(text)))

InsertNames(sql) == SplitList(Between(sql, " (", ") VALUES ("))
InsertPlaceholders(sql) == SplitList(Between(sql, ") VALUES (", ") RETURNING "))

(* The placeholder of each SET entry: what follows "name = ". *)
UpdatePlaceholders(sql) ==
    LET entries == SplitList(Between(sql, " SET ", " WHERE id = "))
    IN [i \in 1..Len(entries) |-> SubSeq(entries[i], 3, Len(entries[i]))]

BoundBefore(fields, i) == Cardinality({j \in 1..i : ~IsLiteral(fields[j])})

(* The j-th Bound field gets $j, a Literal field its raw text. *)
PlaceholdersByBoundCount(fields) ==
    [i \in 1..Len(fields) |->
        IF IsLiteral(fields[i]) THEN fields[i].Value
        ELSE Sprintf(BoundBefore(fields, i))]

(* C9: buildInsertSQL renders the j-th Bound field as $j and a Literal    *)
(* field as its raw text, which takes no number: the VALUES list holds    *)
(* $1 .. $B in increasing order, entry by entry beside the column names.  *)
C9_InsertBoundCounter ==
    res.fn = "buildInsertSQL" =>
        /\ InsertNames(res.sql) = [i \in 1..Len(arg.Fields) |-> arg.Fields[i].Name]
        /\ InsertPlaceholders(res.sql) = PlaceholdersByBoundCount(arg.Fields)
        /\ PlaceholderNumbers(Between(res.sql, ") VALUES (", ") RETURNING "))
              = CountTo(BoundBefore(arg.Fields, Len(arg.Fields)))

(* a Literal field ahead of a Bound one: the Bound one is still $1 *)
C9_Witness ==
    /\ res.fn = "buildInsertSQL"
    /\ Len(arg.Fields) >= 3
    /\ IsLiteral(arg.Fields[1])
    /\ ~IsLiteral(arg.Fields[2])
    /\ InsertPlaceholders(res.sql)[2] = <<"$", "1">>
    /\ \E i \in 1..Len(arg.Fields) : InsertPlaceholders(res.sql)[i] = <<"$", "2">>

(* C10: buildUpdateSQL gives each field in its SET list the placeholder   *)
(* text that buildInsertSQL gives the field in its VALUES list: the j-th  *)
(* Bound field $j, a Literal field its raw text.                          *)
C10_UpdateNumbersLikeInsert ==
    res.fn = "buildUpdateSQL" =>
        /\ UpdatePlaceholders(res.sql) = InsertPlaceholders(buildInsertSQL(arg))
        /\ UpdatePlaceholders(res.sql) = PlaceholdersByBoundCount(arg.Fields)


----------------------------------------------------------------------------
(* The field lists of the claims, said without the loops of the code. *)

IsBound(f) == f.kind = "BasicField"
BoundFields(fields) == SelectSeq(fields, IsBound)

(* The places of fields where a name occurs first, and where it occurs last. *)
FirstPlaces(fields) ==
    {i \in 1..Len(fields) :
        \A j \in 1..(i - 1) : GetName(fields[j]) # GetName(fields[i])}
LastPlaces(fields) ==
    {i \in 1..Len(fields) :
        \A j \in (i + 1)..Len(fields) : GetName(fields[j]) # GetName(fields[i])}

(* The elements of s at the places in P, in the order of s. *)
RECURSIVE AtPlaces(_, _)
AtPlaces(s, P) ==
    IF P = {} THEN <<>>
    ELSE LET m == CHOOSE i \in P : \A j \in P : i <= j
         IN <<s[m]>> \o AtPlaces(s, P \ {m})

(* C13: pluckValues returns one entry for each Bound field and none for a *)
(* Literal field, in the order the Bound fields have in the input list.   *)
C13_PluckValuesOfBoundFields ==
    res.fn = "pluckValues" =>
        LET bound == BoundFields(arg.Fields)
        IN res.values = [i \in 1..Len(bound) |-> bound[i].Value]

(* C15: dedupeFields returns its fields in one order for one input: that *)
(* of the first occurrence of each name in the input list.               *)
C15_DedupeOrderOfFirstOccurrence ==
    res.fn = "dedupeFields" =>
        pluckNames(res.fields) = pluckNames(AtPlaces(arg.Fields, FirstPlaces(arg.Fields)))

(* C16: filterFields returns exactly the input fields whose name is not   *)
(* in skipColumns, in their order: none named in skipColumns, none other  *)
(* dropped, none twice.                                                   *)
C16_FilterFieldsExact ==
    res.fn = "filterFields" =>
        /\ res.fields =
              AtPlaces(arg.Fields,
                       {i \in 1..Len(arg.Fields) :
                           \A k \in 1..Len(res.skipColumns) :
                               res.skipColumns[k] # GetName(arg.Fields[i])})
        /\ \A i \in 1..Len(res.fields) :
              ~Contains(res.skipColumns, GetName(res.fields[i]))

(* a, b, b filtered by [a]: the two fields named b are kept, in order *)
C16_Witness ==
    /\ res.fn = "filterFields"
    /\ res.skipColumns = <<<<"a">>>>
    /\ arg.Fields = <<BasicField(<<"a">>, "x"), LiteralField(<<"b">>, <<"now()">>),
                      BasicField(<<"b">>, "x")>>
    /\ res.fields = <<LiteralField(<<"b">>, <<"now()">>), BasicField(<<"b">>, "x")>>

----------------------------------------------------------------------------
(* Go slices.  A slice is [arr, len, cap]: arr names its backing array in  *)
(* the heap of its element type (0: the nil slice), and two slices with    *)
(* the same arr share their elements.                                      *)

NilSlice == [arr |-> 0, len |-> 0, cap |-> 0]

(* The zero value in an array slot that no slice has reached yet. *)
Zero == [k |-> "zero"]

Elements(heap, s) == IF s.len = 0 THEN <<>> ELSE SubSeq(heap[s.arr], 1, s.len)

(* The capacity append asks for when newLen elements do not fit (the gc *)
(* runtime's rule for capacities under 256; the sizes met here need no  *)
(* rounding up to a size class).                                        *)
growslice(oldCap, newLen) ==
    IF newLen > oldCap + oldCap THEN newLen ELSE oldCap + oldCap

(* append(s, xs...): [heap, slice].  When the elements fit the capacity  *)
(* they are written into the backing array s shares with other slices.   *)
append(heap, s, xs) ==
    IF Len(xs) = 0 THEN [heap |-> heap, slice |-> s]
    ELSE LET newLen == s.len + Len(xs)
         IN IF newLen <= s.cap
            THEN [heap |-> [heap EXCEPT ![s.arr] =
                               [j \in 1..s.cap |->
                                   IF j > s.len /\ j <= newLen THEN xs[j - s.len]
                                   ELSE @[j]]],
                  slice |-> [s EXCEPT !.len = newLen]]
            ELSE LET newCap == growslice(s.cap, newLen)
                     old == Elements(heap, s)
                 IN [heap |-> Append(heap,
                                 [j \in 1..newCap |->
                                     IF j <= s.len THEN old[j]
                                     ELSE IF j <= newLen THEN xs[j - s.len]
                                     ELSE Zero]),
                     slice |-> [arr |-> Len(heap) + 1, len |-> newLen, cap |-> newCap]]

----------------------------------------------------------------------------
(* buildSelectQuery: builders.go *)

orderBy(expression, direction) == [Expression |-> expression, Direction |-> direction]

selectHead(options) ==
    LET base == Join(<<<<"SELECT ">>, Join(options.Columns, <<", ">>),
                       <<" FROM ">>, options.From>>, <<>>)
        where == buildWhereClause(options.Where)
        sql1 == IF Len(options.Where) > 0
                THEN Join(<<base, <<" WHERE ">>, where[1]>>, <<>>)
                ELSE base
        orderByClauses ==
            [i \in 1..Len(options.OrderBy) |->
                Join(<<options.OrderBy[i].Expression, options.OrderBy[i].Direction>>,
                     <<" ">>)]
    IN IF Len(options.OrderBy) > 0
       THEN Join(<<sql1, <<" ORDER BY ">>, Join(orderByClauses, <<", ">>)>>, <<>>)
       ELSE sql1

(* The revision that wrote OFFSET before LIMIT. *)
buildSelectQueryOffsetFirst(options) ==
    LET offset0 == IF Len(options.Where) > 0 THEN buildWhereClause(options.Where)[2] ELSE 0
        sql3 == IF options.Offset
                THEN Join(<<selectHead(options), <<" OFFSET ">>, Sprintf(offset0 + 1)>>, <<>>)
                ELSE selectHead(options)
        offset1 == IF options.Offset THEN offset0 + 1 ELSE offset0
    IN IF options.Limit
       THEN Join(<<sql3, <<" LIMIT ">>, Sprintf(offset1 + 1)>>, <<>>)
       ELSE sql3

buildSelectQuery(options) ==
    LET base == Join(<<<<"SELECT ">>, Join(options.Columns, <<", ">>),
                       <<" FROM ">>, options.From>>, <<>>)
        where == buildWhereClause(options.Where)
        offset0 == IF Len(options.Where) > 0 THEN where[2] ELSE 0
        sql1 == IF Len(options.Where) > 0
                THEN Join(<<base, <<" WHERE ">>, where[1]>>, <<>>)
                ELSE base
        orderByClauses ==
            [i \in 1..Len(options.OrderBy) |->
                Join(<<options.OrderBy[i].Expression, options.OrderBy[i].Direction>>,
                     <<" ">>)]
        sql2 == IF Len(options.OrderBy) > 0
                THEN Join(<<sql1, <<" ORDER BY ">>, Join(orderByClauses, <<", ">>)>>, <<>>)
                ELSE sql1
        sql3 == IF options.Limit
                THEN Join(<<sql2, <<" LIMIT ">>, Sprintf(offset0 + 1)>>, <<>>)
                ELSE sql2
        offset1 == IF options.Limit THEN offset0 + 1 ELSE offset0
        sql4 == IF options.Offset
                THEN Join(<<sql3, <<" OFFSET ">>, Sprintf(offset1 + 1)>>, <<>>)
                ELSE sql3
    IN IF Len(options.Where) > 0 /\ where[1] = Panic THEN Panic ELSE sql4

----------------------------------------------------------------------------
(* Direct calls of buildSelectQuery *)

SelectExprs ==
    {SimpleExpr(<<"a", "?">>), SimpleExpr(<<"b", "'", "?", "'">>),
     NestedExpr(<<WhereClause(AND_TYPE, SimpleExpr(<<"a", "?">>)),
                  WhereClause(OR_TYPE, SimpleExpr(<<"b", "?">>))>>)}

RECURSIVE SelectWheres(_)
SelectWheres(n) ==
    IF n = 0 THEN {<<>>}
    ELSE LET shorter == SelectWheres(n - 1)
         IN shorter \cup {Append(l, WhereClause(t, e)) :
                             l \in {s \in shorter : Len(s) = n - 1},
                             t \in Types, e \in SelectExprs}

OrderLists(n) ==
    {[i \in 1..k |-> IF i = 1 THEN orderBy(<<"n">>, <<"ASC">>)
                     ELSE orderBy(<<"m">>, <<"DESC">>)] : k \in 0..n}

InitSelect ==
    /\ BuilderIdle
    /\ \E where \in SelectWheres(MaxSelectClauses), order \in OrderLists(MaxOrder),
          limit \in BOOLEAN, offset \in BOOLEAN :
          arg = [fn |-> "select", From |-> <<"t">>, Where |-> where, OrderBy |-> order,
                 Columns |-> <<<<"id">>, <<"name">>>>, Offset |-> offset, Limit |-> limit]
    /\ res = NoResult

CallBuildSelectQuery ==
    /\ arg.fn = "select"
    /\ res = NoResult
    /\ res' = [fn |-> "buildSelectQuery", sql |-> buildSelectQuery(arg)]
    /\ UNCHANGED <<heapC, heapV, heapO, qs, call, arg>>

NextSelect == CallBuildSelectQuery

SpecSelect == InitSelect /\ [][NextSelect]_vars

----------------------------------------------------------------------------
(* QueryDB and its chained methods: fields.go *)

(* A value handed to the driver: a string or a uint behind `any`. *)
Val(c) == [k |-> "string", v |-> c]
Uint(n) == [k |-> "uint", v |-> n]

(* Go's uint holds 0 .. UintModulus - 1 and its arithmetic wraps around; *)
(* the width is scaled down from the machine's 64 bits.                  *)
UintModulus == 2 ^ UintBits

(* The struct of the rows a multi-row destination collects: its db tags *)
(* are the columns selected.                                            *)
RowFields ==
    <<[db |-> <<"id">>, addr |-> "&row.ID"],
      [db |-> <<"name">>, addr |-> "&row.Name"]>>

From(table) ==
    [From |-> table, OrderClauses |-> NilSlice,
     WhereClauses |-> NilSlice, WhereValues |-> NilSlice]

(* Each method works on its own copy q of the receiver: the three slice *)
(* headers are copied, the backing arrays are not.                      *)
WhereExpr(q, hC, hV, expr, values) ==
    LET c == append(hC, q.WhereClauses, <<WhereClause(AND_TYPE, expr)>>)
        v == append(hV, q.WhereValues, values)
    IN [q |-> [q EXCEPT !.WhereClauses = c.slice, !.WhereValues = v.slice],
        heapC |-> c.heap, heapV |-> v.heap]

Where(q, hC, hV, expr, values) == WhereExpr(q, hC, hV, SimpleExpr(expr), values)

OrWhereExpr(q, hC, hV, expr, values) ==
    LET c == append(hC, q.WhereClauses, <<WhereClause(OR_TYPE, expr)>>)
        v == append(hV, q.WhereValues, values)
    IN [q |-> [q EXCEPT !.WhereClauses = c.slice, !.WhereValues = v.slice],
        heapC |-> c.heap, heapV |-> v.heap]

(* OrWhere does not hand its values on. *)
OrWhere(q, hC, hV, expr, values) == OrWhereExpr(q, hC, hV, SimpleExpr(expr), <<>>)

Order(q, hO, expression, direction) ==
    LET o == append(hO, q.OrderClauses, <<orderBy(expression, direction)>>)
    IN [q |-> [q EXCEPT !.OrderClauses = o.slice], heapO |-> o.heap]

(* The database.  A statement is run with one argument for each of its  *)
(* placeholders, or the driver refuses it.  The rows a builder's WHERE   *)
(* clauses match are MatchingRows many, known by their place 0, 1, ...   *)
(* in the order asked for; LIMIT and OFFSET cut a window out of them.    *)
(* The number of the placeholder that follows the keyword a. *)
NumberAfter(sql, a) ==
    LET i == AtomAt(sql, a)
    IN Atoi(SubSeq(sql, i + 2, DigitRunEnd(sql, i + 2)))

Query(sql, values) ==
    IF Len(values) # Len(Placeholders(sql))
    THEN [err |-> "sql: wrong number of arguments", rows |-> <<>>]
    ELSE LET limit == IF AtomAt(sql, " LIMIT ") = 0 THEN MatchingRows
                      ELSE values[NumberAfter(sql, " LIMIT ")].v
             offset == IF AtomAt(sql, " OFFSET ") = 0 THEN 0
                       ELSE values[NumberAfter(sql, " OFFSET ")].v
             last == IF offset + limit < MatchingRows THEN offset + limit
                     ELSE MatchingRows
         IN [err |-> "", rows |-> [k \in 1..(last - offset) |-> offset + k - 1]]

(* QueryRow(...).Scan(&count): the count, or the error of the driver or *)
(* of the scan.                                                         *)
QueryRowScan(sql, values, fails) ==
    IF Len(values) # Len(Placeholders(sql))
    THEN [err |-> "sql: wrong number of arguments", count |-> 0]
    ELSE IF fails THEN [err |-> "sql: scan failed", count |-> 0]
    ELSE [err |-> "", count |-> MatchingRows]

(* Get: fields.go *)
GetWithClauses(q, hC, hV, jdb, id, v) ==
    IF checkValueType(v) # ""
    THEN [err |-> checkValueType(v), executed |-> FALSE]
    ELSE [err |-> "", executed |-> TRUE,
          sql |-> buildSelectQuery(
                      [Columns |-> pluckNames(extractFields(v)),
                       From |-> q.From,
                       Where |-> Append(Elements(hC, q.WhereClauses),
                                        WhereClause(AND_TYPE,
                                            SimpleExpr(columnEq(GetIDName(jdb))))),
                       OrderBy |-> <<>>, Offset |-> FALSE, Limit |-> FALSE]),
          values |-> Append(Elements(hV, q.WhereValues), id)]

Get(q, hC, hV, jdb, id, v) ==
    IF checkValueType(v) # ""
    THEN [err |-> checkValueType(v), executed |-> FALSE]
    ELSE [err |-> "", executed |-> TRUE,
          sql |-> buildSelectQuery(
                      [Columns |-> pluckNames(extractFields(v)),
                       From |-> q.From,
                       Where |-> <<WhereClause(AND_TYPE,
                                       SimpleExpr(columnEq(GetIDName(jdb))))>>,
                       OrderBy |-> <<>>, Offset |-> FALSE, Limit |-> FALSE]),
          values |-> <<id>>]

(* One, All: fields.go.  GetRow and SelectAll run the statement and scan *)
(* what comes back into v.                                               *)
One(q, hC, hV, v) ==
    IF checkValueType(v) # ""
    THEN [err |-> checkValueType(v), executed |-> FALSE]
    ELSE LET sql == buildSelectQuery(
                        [Columns |-> pluckNames(extractFields(v)),
                         From |-> q.From,
                         Where |-> Elements(hC, q.WhereClauses),
                         OrderBy |-> <<>>, Offset |-> FALSE, Limit |-> FALSE])
             values == Elements(hV, q.WhereValues)
         IN IF sql = Panic
            THEN [err |-> "panic", executed |-> FALSE]
            ELSE [err |-> QueryRowScan(sql, values, FALSE).err, executed |-> TRUE,
                  sql |-> sql, values |-> values]

All(q, hC, hV, hO, v) ==
    IF getSliceStructInstance(v).err # ""
    THEN [err |-> getSliceStructInstance(v).err, executed |-> FALSE]
    ELSE LET sql == buildSelectQuery(
                        [From |-> q.From,
                         Where |-> Elements(hC, q.WhereClauses),
                         OrderBy |-> Elements(hO, q.OrderClauses),
                         Columns |-> pluckNames(extractFields(
                                         getSliceStructInstance(v).structInstance)),
                         Offset |-> FALSE, Limit |-> FALSE])
             values == Elements(hV, q.WhereValues)
         IN IF sql = Panic
            THEN [err |-> "panic", executed |-> FALSE]
            ELSE [err |-> Query(sql, values).err, executed |-> TRUE,
                  sql |-> sql, values |-> values, rows |-> Query(sql, values).rows]

(* Count: fields.go *)
CountOrdered(q, hC, hV, hO, fails) ==
    LET sql == buildSelectQuery(
                   [From |-> q.From,
                    Where |-> Elements(hC, q.WhereClauses),
                    Columns |-> <<<<"count(1)">>>>,
                    OrderBy |-> Elements(hO, q.OrderClauses),
                    Offset |-> FALSE, Limit |-> FALSE])
        result == QueryRowScan(sql, Elements(hV, q.WhereValues), fails)
    IN [executed |-> TRUE, sql |-> sql, values |-> Elements(hV, q.WhereValues),
        count |-> result.count, err |-> result.err]

Count(q, hC, hV, hO, fails) ==
    LET sql == buildSelectQuery(
                   [From |-> q.From,
                    Where |-> Elements(hC, q.WhereClauses),
                    Columns |-> <<<<"count(1)">>>>,
                    OrderBy |-> <<>>, Offset |-> FALSE, Limit |-> FALSE])
        result == QueryRowScan(sql, Elements(hV, q.WhereValues), fails)
    IN IF sql = Panic
       THEN [executed |-> FALSE, sql |-> <<>>, values |-> <<>>, count |-> 0,
             err |-> "panic"]
       ELSE [executed |-> TRUE, sql |-> sql, values |-> Elements(hV, q.WhereValues),
             count |-> IF result.err # "" THEN 0 ELSE result.count,
             err |-> result.err]

(* Page: fields.go.  The destination is a pointer to a slice of structs  *)
(* or it is not (getSliceStructInstance).  values is local to the call:  *)
(* a backing array allocated for it is dropped with it, elements written *)
(* into the receiver's backing array stay.                               *)
Page(q, hC, hV, hO, page, pageSize, v) ==
    IF page < 1
    THEN [err |-> "Page number must be greater than 0", executed |-> FALSE, heapV |-> hV]
    ELSE IF pageSize < 1
    THEN [err |-> "Page size must be greater than 0", executed |-> FALSE, heapV |-> hV]
    ELSE IF getSliceStructInstance(v).err # ""
    THEN [err |-> getSliceStructInstance(v).err, executed |-> FALSE, heapV |-> hV]
    ELSE LET offset == ((page - 1) * pageSize) % UintModulus
             limit == pageSize
             sql == buildSelectQuery(
                        [From |-> q.From,
                         Where |-> Elements(hC, q.WhereClauses),
                         OrderBy |-> Elements(hO, q.OrderClauses),
                         Columns |-> pluckNames(extractFields(
                                         getSliceStructInstance(v).structInstance)),
                         Offset |-> TRUE,
                         Limit |-> TRUE])
             grown == append(hV, q.WhereValues, <<Uint(limit), Uint(offset)>>)
             values == Elements(grown.heap, grown.slice)
             result == Query(sql, values)
         IN IF sql = Panic
            THEN [err |-> "panic", executed |-> FALSE, heapV |-> hV]
            ELSE [err |-> result.err, executed |-> TRUE, sql |-> sql,
                  values |-> values, rows |-> result.rows,
                  heapV |-> IF grown.slice.arr = q.WhereValues.arr THEN grown.heap
                            ELSE hV]

----------------------------------------------------------------------------
(* The caller: builder values made by chaining from From("t") *)

(* Clause texts with the values a caller binds to their markers: the value *)
(* for a marker is that of the column named before it.                     *)
WhereArgs ==
    {[expr |-> <<"a", "?">>, values |-> <<Val("a")>>],
     [expr |-> <<"b", "'", "?", "'">>, values |-> <<>>]}
OrWhereArgs == {[expr |-> <<"b", "?">>, values |-> <<Val("b")>>]}
WhereExprArgs ==
    {[expr |-> NestedExpr(<<WhereClause(AND_TYPE, SimpleExpr(<<"a", "?">>)),
                            WhereClause(OR_TYPE, SimpleExpr(<<"b", "?">>))>>),
      values |-> <<Val("a"), Val("b")>>]}
OrWhereExprArgs == {[expr |-> SimpleExpr(<<"c", "?">>), values |-> <<Val("c")>>]}
OrderArgs == {[expression |-> <<"n">>, direction |-> <<"ASC">>]}

Init ==
    /\ heapC = <<>>
    /\ heapV = <<>>
    /\ heapO = <<>>
    /\ qs = <<From(<<"t">>)>>
    /\ call = NoCall
    /\ arg = NoArg
    /\ res = NoResult

DoWhere(held) ==
    \E i \in 1..Len(qs), a \in WhereArgs :
        /\ Len(qs) < held
        /\ LET r == Where(qs[i], heapC, heapV, a.expr, a.values)
           IN /\ qs' = Append(qs, r.q)
              /\ heapC' = r.heapC
              /\ heapV' = r.heapV
        /\ call' = [op |-> "Where", recv |-> i, expr |-> a.expr, values |-> a.values]
        /\ UNCHANGED <<heapO, arg, res>>

DoOrWhere(held) ==
    \E i \in 1..Len(qs), a \in OrWhereArgs :
        /\ Len(qs) < held
        /\ LET r == OrWhere(qs[i], heapC, heapV, a.expr, a.values)
           IN /\ qs' = Append(qs, r.q)
              /\ heapC' = r.heapC
              /\ heapV' = r.heapV
        /\ call' = [op |-> "OrWhere", recv |-> i, expr |-> a.expr, values |-> a.values]
        /\ UNCHANGED <<heapO, arg, res>>

DoWhereExpr(held) ==
    \E i \in 1..Len(qs), a \in WhereExprArgs :
        /\ Len(qs) < held
        /\ LET r == WhereExpr(qs[i], heapC, heapV, a.expr, a.values)
           IN /\ qs' = Append(qs, r.q)
              /\ heapC' = r.heapC
              /\ heapV' = r.heapV
        /\ call' = [op |-> "WhereExpr", recv |-> i, expr |-> a.expr, values |-> a.values]
        /\ UNCHANGED <<heapO, arg, res>>

DoOrWhereExpr(held) ==
    \E i \in 1..Len(qs), a \in OrWhereExprArgs :
        /\ Len(qs) < held
        /\ LET r == OrWhereExpr(qs[i], heapC, heapV, a.expr, a.values)
           IN /\ qs' = Append(qs, r.q)
              /\ heapC' = r.heapC
              /\ heapV' = r.heapV
        /\ call' = [op |-> "OrWhereExpr", recv |-> i, expr |-> a.expr, values |-> a.values]
        /\ UNCHANGED <<heapO, arg, res>>

DoOrder(held) ==
    \E i \in 1..Len(qs), a \in OrderArgs :
        /\ Len(qs) < held
        /\ LET r == Order(qs[i], heapO, a.expression, a.direction)
           IN /\ qs' = Append(qs, r.q)
              /\ heapO' = r.heapO
        /\ call' = [op |-> "Order", recv |-> i,
                    expression |-> a.expression, direction |-> a.direction]
        /\ UNCHANGED <<heapC, heapV, arg, res>>

DoPage ==
    \E i \in 1..Len(qs), page \in 0..MaxPage, pageSize \in 0..MaxPageSize,
       type \in DestTypes :
        /\ \E r \in {Page(qs[i], heapC, heapV, heapO, page, pageSize,
                          [type |-> type, fields |-> RowFields])} :
              /\ heapV' = r.heapV
              /\ call' = [op |-> "Page", recv |-> i, page |-> page,
                          pageSize |-> pageSize, dest |-> type,
                          destOK |-> type = "*[]struct",
                          err |-> r.err, executed |-> r.executed,
                          sql |-> IF r.executed THEN r.sql ELSE <<>>,
                          values |-> IF r.executed THEN r.values ELSE <<>>,
                          rows |-> IF r.executed THEN r.rows ELSE <<>>]
        /\ UNCHANGED <<heapC, heapO, qs, arg, res>>

DoGet ==
    \E i \in 1..Len(qs), type \in DestTypes, idColumn \in IDColumns :
        /\ \E r \in {Get(qs[i], heapC, heapV, [IDColumn |-> idColumn], Id,
                         [type |-> type, fields |-> StructFields])} :
              call' = [op |-> "Get", recv |-> i, dest |-> type,
                       ptrToStruct |-> type = "*struct",
                       idColumn |-> idColumn,
                       err |-> r.err, executed |-> r.executed,
                       sql |-> IF r.executed THEN r.sql ELSE <<>>,
                       values |-> IF r.executed THEN r.values ELSE <<>>]
        /\ UNCHANGED <<heapC, heapV, heapO, qs, arg, res>>

DoCount ==
    \E i \in 1..Len(qs), fails \in BOOLEAN :
        /\ \E r \in {Count(qs[i], heapC, heapV, heapO, fails)} :
              call' = [op |-> "Count", recv |-> i, fails |-> fails,
                       err |-> r.err, executed |-> r.executed,
                       sql |-> r.sql, values |-> r.values, count |-> r.count]
        /\ UNCHANGED <<heapC, heapV, heapO, qs, arg, res>>

DoOne ==
    \E i \in 1..Len(qs), type \in DestTypes :
        /\ \E r \in {One(qs[i], heapC, heapV, [type |-> type, fields |-> StructFields])} :
              call' = [op |-> "One", recv |-> i, dest |-> type,
                       err |-> r.err, executed |-> r.executed,
                       sql |-> IF r.executed THEN r.sql ELSE <<>>,
                       values |-> IF r.executed THEN r.values ELSE <<>>]
        /\ UNCHANGED <<heapC, heapV, heapO, qs, arg, res>>

DoAll ==
    \E i \in 1..Len(qs), type \in DestTypes :
        /\ \E r \in {All(qs[i], heapC, heapV, heapO, [type |-> type, fields |-> RowFields])} :
              call' = [op |-> "All", recv |-> i, dest |-> type,
                       err |-> r.err, executed |-> r.executed,
                       sql |-> IF r.executed THEN r.sql ELSE <<>>,
                       values |-> IF r.executed THEN r.values ELSE <<>>,
                       rows |-> IF r.executed THEN r.rows ELSE <<>>]
        /\ UNCHANGED <<heapC, heapV, heapO, qs, arg, res>>

Chain(held) ==
    \/ DoWhere(held)
    \/ DoOrWhere(held)
    \/ DoWhereExpr(held)
    \/ DoOrWhereExpr(held)
    \/ DoOrder(held)

(* Chaining and branching, up to MaxQueries builder values. *)
Next == Chain(MaxQueries)

Spec == Init /\ [][Next]_vars

(* Shorter chains, each builder value also used for terminal operations. *)
NextQuery == Chain(MaxHeld) \/ DoPage

SpecQuery == Init /\ [][NextQuery]_vars

(* The same chains, each builder value also used for Get and Count. *)
NextLookup == Chain(MaxHeld) \/ DoGet \/ DoCount

SpecLookup == Init /\ [][NextLookup]_vars

(* Page called with every page number and page size a uint holds, on *)
(* builders that carry an order.                                     *)
DoPageWide ==
    \E i \in 1..Len(qs), page \in 1..(UintModulus - 1),
       pageSize \in 1..(UintModulus - 1) :
        /\ \E r \in {Page(qs[i], heapC, heapV, heapO, page, pageSize,
                          [type |-> "*[]struct", fields |-> RowFields])} :
              /\ heapV' = r.heapV
              /\ call' = [op |-> "Page", recv |-> i, page |-> page,
                          pageSize |-> pageSize, dest |-> "*[]struct",
                          destOK |-> TRUE,
                          err |-> r.err, executed |-> r.executed,
                          sql |-> r.sql, values |-> r.values, rows |-> r.rows]
        /\ UNCHANGED <<heapC, heapO, qs, arg, res>>

NextPaging == DoOrder(MaxHeld) \/ DoPageWide

SpecPaging == Init /\ [][NextPaging]_vars

(* The same chains, each builder value also used for One and All. *)
NextFetch == Chain(MaxHeld) \/ DoOne \/ DoAll

SpecFetch == Init /\ [][NextFetch]_vars

----------------------------------------------------------------------------
(* Two goroutines reusing one base query without coordination.  The base  *)
(* is made beforehand by a chain of Where calls.  Each goroutine works on *)
(* its own copy of the QueryDB struct (qs[1 + g]; qs[1] is the base) and  *)
(* either chains one method onto it and runs the result, or runs the base *)
(* as it is.  A chained WhereExpr is two appends, and the other goroutine *)
(* may run between them; where both touch one array slot the later write  *)
(* stays.  call[g] is where goroutine g stands.                           *)

Goroutines == {1, 2}

RECURSIVE BaseChain(_)
BaseChain(k) ==
    IF k = 0 THEN [q |-> From(<<"t">>), heapC |-> <<>>, heapV |-> <<>>]
    ELSE LET shorter == BaseChain(k - 1)
         IN Where(shorter.q, shorter.heapC, shorter.heapV, <<"a", "?">>, <<Val("a")>>)

(* What a goroutine chains: Where(b?, "b") or OrWhereExpr(c?, "c"). *)
ChainArgs ==
    {[op |-> "Where", type |-> AND_TYPE, expr |-> SimpleExpr(<<"b", "?">>),
      values |-> <<Val("b")>>],
     [op |-> "OrWhereExpr", type |-> OR_TYPE, expr |-> SimpleExpr(<<"c", "?">>),
      values |-> <<Val("c")>>]}

NoChain == [op |-> "none"]

InitShared ==
    \E k \in 0..MaxBase :
        /\ heapC = BaseChain(k).heapC
        /\ heapV = BaseChain(k).heapV
        /\ heapO = <<>>
        /\ qs = <<BaseChain(k).q, BaseChain(k).q, BaseChain(k).q>>
        /\ call = [g \in Goroutines |-> [pc |-> "start", chain |-> NoChain, ran |-> NoCall]]
        /\ arg = NoArg
        /\ res = NoResult

(* WhereExpr, OrWhereExpr: q.WhereClauses = append(q.WhereClauses, ...) *)
GoAppendClause(g) ==
    \E a \in ChainArgs :
        /\ call[g].pc = "start"
        /\ \E r \in {append(heapC, qs[1 + g].WhereClauses, <<WhereClause(a.type, a.expr)>>)} :
              /\ heapC' = r.heap
              /\ qs' = [qs EXCEPT ![1 + g].WhereClauses = r.slice]
        /\ call' = [call EXCEPT ![g].pc = "values", ![g].chain = a]
        /\ UNCHANGED <<heapV, heapO, arg, res>>

(* WhereExpr, OrWhereExpr: q.WhereValues = append(q.WhereValues, values...) *)
GoAppendValues(g) ==
    /\ call[g].pc = "values"
    /\ \E r \in {append(heapV, qs[1 + g].WhereValues, call[g].chain.values)} :
          /\ heapV' = r.heap
          /\ qs' = [qs EXCEPT ![1 + g].WhereValues = r.slice]
    /\ call' = [call EXCEPT ![g].pc = "built"]
    /\ UNCHANGED <<heapC, heapO, arg, res>>

GoOrder(g) ==
    \E a \in OrderArgs :
        /\ call[g].pc = "start"
        /\ \E r \in {Order(qs[1 + g], heapO, a.expression, a.direction)} :
              /\ heapO' = r.heapO
              /\ qs' = [qs EXCEPT ![1 + g] = r.q]
        /\ call' = [call EXCEPT ![g].pc = "built",
                                ![g].chain = [op |-> "Order", expression |-> a.expression,
                                              direction |-> a.direction]]
        /\ UNCHANGED <<heapC, heapV, arg, res>>

(* The terminal operations, on the goroutine's builder or on the base. *)
GoAll(g) ==
    /\ call[g].pc \in {"start", "built"}
    /\ \E r \in {All(qs[1 + g], heapC, heapV, heapO,
                     [type |-> "*[]struct", fields |-> RowFields])} :
          call' = [call EXCEPT ![g].pc = "done",
                               ![g].ran = [op |-> "All", err |-> r.err,
                                           sql |-> r.sql, values |-> r.values]]
    /\ UNCHANGED <<heapC, heapV, heapO, qs, arg, res>>

GoCount(g) ==
    /\ call[g].pc \in {"start", "built"}
    /\ \E r \in {Count(qs[1 + g], heapC, heapV, heapO, FALSE)} :
          call' = [call EXCEPT ![g].pc = "done",
                               ![g].ran = [op |-> "Count", err |-> r.err,
                                           sql |-> r.sql, values |-> r.values]]
    /\ UNCHANGED <<heapC, heapV, heapO, qs, arg, res>>

GoPage(g) ==
    \E page \in 1..MaxPage, pageSize \in 1..MaxPageSize :
        /\ call[g].pc \in {"start", "built"}
        /\ \E r \in {Page(qs[1 + g], heapC, heapV, heapO, page, pageSize,
                          [type |-> "*[]struct", fields |-> RowFields])} :
              /\ heapV' = r.heapV
              /\ call' = [call EXCEPT ![g].pc = "done",
                                      ![g].ran = [op |-> "Page", err |-> r.err,
                                                  page |-> page, pageSize |-> pageSize,
                                                  sql |-> r.sql, values |-> r.values]]
        /\ UNCHANGED <<heapC, heapO, qs, arg, res>>

NextShared ==
    \E g \in Goroutines :
        \/ GoAppendClause(g)
        \/ GoAppendValues(g)
        \/ GoOrder(g)
        \/ GoAll(g)
        \/ GoCount(g)
        \/ GoPage(g)

SpecShared == InitShared /\ [][NextShared]_vars

----------------------------------------------------------------------------
(* What a builder value holds, read through its slices. *)

Clauses(q) == Elements(heapC, q.WhereClauses)
Values(q) == Elements(heapV, q.WhereValues)

View(q, hC, hV, hO) ==
    [From |-> q.From,
     WhereClauses |-> Elements(hC, q.WhereClauses),
     WhereValues |-> Elements(hV, q.WhereValues),
     OrderClauses |-> Elements(hO, q.OrderClauses)]

(* The placeholders of the rendered WHERE text of q are $1, $2, ... from  *)
(* left to right, and the i-th value of q is the one the caller bound to  *)
(* the marker $i stands for (that of the column named before it).         *)
WherePaired(q) ==
    IF Len(Clauses(q)) = 0 THEN Len(Values(q)) = 0
    ELSE LET sql == buildWhereClause(Clauses(q))[1]
             ph == Placeholders(sql)
         IN /\ [i \in 1..Len(ph) |-> ph[i].num] = CountTo(Len(ph))
            /\ Len(Values(q)) = Len(ph)
            /\ \A i \in 1..Len(ph) : Values(q)[i] = Val(sql[ph[i].at - 1])

(* C1: after any chain of builder operations, the i-th unquoted marker of *)
(* the rendered WHERE text is numbered $i and is paired with the i-th     *)
(* value of the builder's value list.                                     *)
C1_MarkersPairedWithValues == \A i \in 1..Len(qs) : WherePaired(qs[i])

(* C2: with m WHERE markers, Page emits LIMIT $(m+1) before OFFSET $(m+2) *)
(* and hands over a value list with page_size at position m+1 and         *)
(* (page - 1) * page_size at position m+2, the m WHERE values before them *)
(* in positions 1..m.                                                     *)
C2_PageTextAndValuesAgree ==
    (call.op = "Page" /\ call.executed) =>
        LET sql == call.sql
            values == call.values
            limitAt == AtomAt(sql, " LIMIT ")
            offsetAt == AtomAt(sql, " OFFSET ")
            ph == Placeholders(sql)
            m == Cardinality({i \in 1..Len(ph) : ph[i].at < limitAt})
        IN /\ 0 < limitAt /\ limitAt < offsetAt
           /\ NumberAfter(sql, " LIMIT ") = m + 1
           /\ NumberAfter(sql, " OFFSET ") = m + 2
           /\ Len(values) = m + 2
           /\ values[m + 1] = Uint(call.pageSize)
           /\ values[m + 2] = Uint((call.page - 1) * call.pageSize)
           /\ \A i \in 1..m : values[i] = Val(sql[ph[i].at - 1])

(* C7: a builder operation returns a new builder value and changes no     *)
(* builder value made before it: the base and everything derived from it  *)
(* keep their clauses, values and order entries, so that of two builders  *)
(* derived from one base each ends in what was appended to it.            *)
C7_BuildersIndependent ==
    [][\A i \in 1..Len(qs) :
          View(qs[i], heapC', heapV', heapO') = View(qs[i], heapC, heapV, heapO)]_vars

(* C8: OrWhere appends its values, in the order given, to the value list, *)
(* and appends the OR clause, as Where does for an AND clause.            *)
C8_OrWhereAppendsValues ==
    call.op = "OrWhere" =>
        LET new == qs[Len(qs)]
            recv == qs[call.recv]
        IN /\ Clauses(new) =
                  Clauses(recv) \o <<WhereClause(OR_TYPE, SimpleExpr(call.expr))>>
           /\ Values(new) = Values(recv) \o call.values

----------------------------------------------------------------------------
(* The handlers that insert and update a struct *)

(* C11: for Update over a field list of Bound and Literal fields, the      *)
(* placeholder of `WHERE id = $n` has n = 1 + the number of Bound fields,  *)
(* the placeholders of the statement are $1..$n in this order, and the     *)
(* values handed over are those of the Bound fields in field order and     *)
(* then id, which is the n-th.                                             *)
C11_UpdateIdAfterBoundFields ==
    (res.fn = "UpdateWithOptions" /\ res.out.executed) =>
        LET bound == BoundFields(res.out.fields)
            n == 1 + Len(bound)
        IN /\ NumberAfter(res.out.sql, " WHERE id = ") = n
           /\ PlaceholderNumbers(res.out.sql) = CountTo(n)
           /\ res.out.values = [i \in 1..Len(bound) |-> bound[i].Value] \o <<Id>>
           /\ res.out.values[n] = Id

(* The field lists dedupeFields may return for fields: one field for each *)
(* name, the last that carries it.                                        *)
LastWriteWins(fields, out) ==
    /\ Len(out) = Cardinality(NamesOf(fields))
    /\ {out[i] : i \in 1..Len(out)} = {fields[i] : i \in LastPlaces(fields)}

(* C14: dedupeFields returns one field for each name of its input, the     *)
(* last input field with that name; so a field given in Options for a      *)
(* column of the struct takes the place of the struct's field in the       *)
(* INSERT: the column is listed once, with the raw text of a Literal field *)
(* or a placeholder of a Bound one, and the struct's address for it is not *)
(* among the values.                                                       *)
C14_DedupeLastWriteWins ==
    /\ res.fn = "dedupeFields" => LastWriteWins(arg.Fields, res.fields)
    /\ (res.fn = "InsertWithOptions" /\ res.out.executed) =>
          LET own == extractFields([fields |-> StructFields])
              names == InsertNames(res.out.sql)
              entries == InsertPlaceholders(res.out.sql)
          IN \A i \in LastPlaces(arg.Fields) :
                LET f == arg.Fields[i]
                IN ~Contains(res.skipColumns, GetName(f)) =>
                      /\ Cardinality({k \in 1..Len(names) : names[k] = GetName(f)}) = 1
                      /\ \A k \in 1..Len(names) :
                            names[k] = GetName(f) =>
                                IF IsLiteral(f) THEN entries[k] = f.Value
                                ELSE entries[k][1] = "$"
                      /\ Contains(res.out.fields, f)
                      /\ \A j \in 1..Len(own) :
                            GetName(own[j]) = GetName(f) =>
                                ~Contains(res.out.values, own[j].Value)

(* the struct's column a overridden by the literal now() *)
C14_Witness ==
    /\ res.fn = "InsertWithOptions"
    /\ res.out.executed
    /\ res.skipColumns = <<>>
    /\ arg.Fields = <<BasicField(<<"a">>, "x"), LiteralField(<<"a">>, <<"now()">>)>>
    /\ InsertNames(res.out.sql) = <<<<"a">>, <<"b">>>>
    /\ InsertPlaceholders(res.out.sql) = <<<<"now()">>, <<"$", "1">>>>
    /\ res.out.values = <<"&v.B">>

----------------------------------------------------------------------------
(* buildSelectQuery *)

Min3(x, y, z) == CHOOSE v \in {x, y, z} : v <= x /\ v <= y /\ v <= z

(* Where the keyword a stands in sql, or past the end when it is absent. *)
PlaceOf(sql, a) == IF AtomAt(sql, a) = 0 THEN Len(sql) + 1 ELSE AtomAt(sql, a)

(* C12: buildSelectQuery numbers the WHERE clause $1..$m, m the number of  *)
(* its unquoted markers (no WHERE text without clauses, m = 0); with both  *)
(* LIMIT and OFFSET asked for, LIMIT comes first as $(m+1) and OFFSET      *)
(* second as $(m+2), after any ORDER BY; one of them alone is $(m+1).      *)
C12_SelectNumbering ==
    res.fn = "buildSelectQuery" =>
        LET sql == res.sql
            m == IF Len(arg.Where) = 0 THEN 0
                 ELSE Cardinality(UnquotedMarkers(joinWhereClauses(arg.Where)))
            ph == Placeholders(sql)
            tail == Min3(PlaceOf(sql, " ORDER BY "), PlaceOf(sql, " LIMIT "),
                         PlaceOf(sql, " OFFSET "))
            inWhere == {i \in 1..Len(ph) : ph[i].at < tail}
        IN /\ (AtomAt(sql, " WHERE ") = 0) = (Len(arg.Where) = 0)
           /\ inWhere = 1..m
           /\ \A i \in inWhere : ph[i].num = i /\ ph[i].at > AtomAt(sql, " WHERE ")
           /\ (AtomAt(sql, " ORDER BY ") = 0) = (Len(arg.OrderBy) = 0)
           /\ (AtomAt(sql, " LIMIT ") = 0) = ~arg.Limit
           /\ (AtomAt(sql, " OFFSET ") = 0) = ~arg.Offset
           /\ arg.Limit =>
                 /\ NumberAfter(sql, " LIMIT ") = m + 1
                 /\ AtomAt(sql, " LIMIT ") > AtomAt(sql, " ORDER BY ")
           /\ arg.Offset =>
                 /\ NumberAfter(sql, " OFFSET ") = IF arg.Limit THEN m + 2 ELSE m + 1
                 /\ AtomAt(sql, " OFFSET ") > AtomAt(sql, " ORDER BY ")
                 /\ AtomAt(sql, " OFFSET ") > AtomAt(sql, " LIMIT ")
           /\ Len(ph) = m + (IF arg.Limit THEN 1 ELSE 0) + (IF arg.Offset THEN 1 ELSE 0)

(* a? AND (a? OR b?), ordered, with LIMIT and OFFSET: $1..$3, $4, $5 *)
C12_Witness ==
    /\ res.fn = "buildSelectQuery"
    /\ arg.Limit /\ arg.Offset /\ Len(arg.OrderBy) = 1
    /\ res.sql = <<"SELECT ", "id", ", ", "name", " FROM ", "t", " WHERE ",
                   "a", "$", "1", " ", "A", "N", "D", " ",
                   "(", "a", "$", "2", " ", "O", "R", " ", "b", "$", "3", ")",
                   " ORDER BY ", "n", " ", "ASC",
                   " LIMIT ", "$", "4", " OFFSET ", "$", "5">>

----------------------------------------------------------------------------
(* The terminal operations of a builder value *)

Orders(q) == Elements(heapO, q.OrderClauses)

NoPaging(sql) ==
    /\ AtomAt(sql, " ORDER BY ") = 0
    /\ AtomAt(sql, " LIMIT ") = 0
    /\ AtomAt(sql, " OFFSET ") = 0

(* C17: Page refuses a request with page number < 1, page size < 1 or no *)
(* order entry before anything else: it returns an error, builds no SQL  *)
(* and does not call the database.                                       *)
C17_PageRejectsInvalidRequest ==
    (/\ call.op = "Page"
     /\ \/ call.page < 1
        \/ call.pageSize < 1
        \/ Len(Orders(qs[call.recv])) = 0) =>
        /\ call.err # ""
        /\ ~call.executed
        /\ call.sql = <<>>

(* C18: for a query matching R rows under a total order and a page size  *)
(* s >= 1, Page(p) returns the rows at the places (p-1)*s .. min(p*s, R)-1 *)
(* of the order: the pages are disjoint, in order, and hold every row once. *)
C18_PagesPartitionRows ==
    (/\ call.op = "Page"
     /\ call.page >= 1
     /\ call.pageSize >= 1
     /\ call.destOK
     /\ Len(Orders(qs[call.recv])) > 0) =>
        LET first == (call.page - 1) * call.pageSize
            last == IF call.page * call.pageSize < MatchingRows
                    THEN call.page * call.pageSize ELSE MatchingRows
        IN /\ call.err = ""
           /\ call.rows = [k \in 1..(last - first) |-> first + k - 1]

(* C19: Get ignores what the builder has gathered: its statement has the  *)
(* one WHERE clause `<id column> = $1` on the configured id column, no    *)
(* ORDER BY, LIMIT or OFFSET, and its value list is [id].                 *)
C19_GetIgnoresBuilder ==
    (call.op = "Get" /\ call.executed) =>
        /\ call.sql = <<"SELECT ", "a", ", ", "b", " FROM ", "t", " WHERE ">>
                      \o (IF call.idColumn = <<>> THEN <<"i", "d">> ELSE call.idColumn)
                      \o <<" ", "=", " ", "$", "1">>
        /\ NoPaging(call.sql)
        /\ call.values = <<Id>>

(* Get on a builder holding a clause, a value and an order entry *)
C19_Witness ==
    /\ call.op = "Get"
    /\ call.executed
    /\ call.idColumn = <<"u", "i", "d">>
    /\ Len(Clauses(qs[call.recv])) > 0
    /\ Len(Values(qs[call.recv])) > 0
    /\ Len(Orders(qs[call.recv])) > 0

(* C20: Count runs `SELECT count(1) FROM <table>` with the WHERE clauses  *)
(* and exactly the values the builder holds, never with ORDER BY, LIMIT   *)
(* or OFFSET, and returns 0 with the error when the query or scan fails.  *)
C20_CountWhereOnly ==
    call.op = "Count" =>
        LET q == qs[call.recv]
        IN /\ call.executed
           /\ call.sql = <<"SELECT ", "count(1)", " FROM ">> \o q.From
                         \o (IF Len(Clauses(q)) = 0 THEN <<>>
                             ELSE <<" WHERE ">> \o buildWhereClause(Clauses(q))[1])
           /\ call.values = Values(q)
           /\ NoPaging(call.sql)
           /\ call.err # "" => call.count = 0
           /\ call.fails => call.err # ""

(* Count, failing, on a builder holding a clause, a value and an order entry *)
C20_Witness ==
    /\ call.op = "Count"
    /\ call.fails
    /\ call.count = 0
    /\ Len(Values(qs[call.recv])) > 0
    /\ Len(Orders(qs[call.recv])) > 0
    /\ call.sql = <<"SELECT ", "count(1)", " FROM ", "t", " WHERE ", "a", "$", "1">>

----------------------------------------------------------------------------
(* Destinations *)

SingleRowOps == {"Get", "One"}
MultiRowOps == {"All", "Page"}
RecordOps == {"InsertWithOptions", "UpdateWithOptions"}

(* C21: a handler given a destination of the wrong dynamic type (not a   *)
(* pointer to a struct for Get, One, Insert and Update, not a pointer to *)
(* a slice of structs for All and Page) returns an error before anything *)
(* else happens: no SQL is built and the executor, the only writer of    *)
(* the destination, is not called.                                       *)
C21_InvalidDestReturnsError ==
    /\ (\/ call.op \in SingleRowOps /\ call.dest # "*struct"
        \/ call.op \in MultiRowOps /\ call.dest # "*[]struct") =>
           /\ call.err # ""
           /\ call.err # NilPanic
           /\ ~call.executed
           /\ call.sql = <<>>
           /\ call.values = <<>>
    /\ (res.fn \in RecordOps /\ res.dest # "*struct") =>
           /\ res.out.err # ""
           /\ res.out.err # NilPanic
           /\ ~res.out.executed

----------------------------------------------------------------------------
(* Goroutines sharing a base query *)

(* What goroutine g chained onto the base, as clauses, values and order. *)
OwnClauses(g) ==
    Clauses(qs[1]) \o (IF call[g].chain.op \in {"Where", "OrWhereExpr"}
                       THEN <<WhereClause(call[g].chain.type, call[g].chain.expr)>>
                       ELSE <<>>)
OwnValues(g) ==
    Values(qs[1]) \o (IF call[g].chain.op \in {"Where", "OrWhereExpr"}
                      THEN call[g].chain.values ELSE <<>>)
OwnOrder(g) ==
    IF call[g].chain.op = "Order"
    THEN <<orderBy(call[g].chain.expression, call[g].chain.direction)>>
    ELSE <<>>

(* The statement of g's terminal operation over g's own chain. *)
OwnSQL(g) ==
    LET op == call[g].ran.op
    IN buildSelectQuery(
           [From |-> qs[1].From,
            Where |-> OwnClauses(g),
            OrderBy |-> IF op = "Count" THEN <<>> ELSE OwnOrder(g),
            Columns |-> IF op = "Count" THEN <<<<"count(1)">>>>
                        ELSE <<<<"id">>, <<"name">>>>,
            Offset |-> op = "Page", Limit |-> op = "Page"])

(* C22: under every interleaving of two goroutines that each chain onto  *)
(* one base query or run it, the statement a goroutine executes is that  *)
(* of the base's clauses followed by its own, and the values are the     *)
(* base's followed by its own and, for Page, its own limit and offset.   *)
C22_GoroutinesRunTheirOwnChain ==
    \A g \in Goroutines :
        call[g].pc = "done" =>
            /\ call[g].ran.sql = OwnSQL(g)
            /\ call[g].ran.values =
                  OwnValues(g) \o (IF call[g].ran.op = "Page"
                                   THEN <<Uint(call[g].ran.pageSize),
                                          Uint((call[g].ran.page - 1) * call[g].ran.pageSize)>>
                                   ELSE <<>>)

(* C27: a terminal operation changes no builder value: the clauses,     *)
(* values and order entries seen through the base and through every     *)
(* builder derived from it are after the call what they were before it. *)
C27_TerminalLeavesBuilders ==
    [][(\E g \in Goroutines : call[g].pc # "done" /\ call'[g].pc = "done") =>
          \A i \in 1..Len(qs) :
              View(qs[i], heapC', heapV', heapO') = View(qs[i], heapC, heapV, heapO)]_vars

----------------------------------------------------------------------------
(* Rendering of clause lists *)

(* C23: rendering never fails on an empty clause list: the top-level     *)
(* empty list gives the empty text and the count 0, and a Nested         *)
(* expression with no clause in it renders as `()`.                      *)
C23_EmptyListsRender ==
    res.fn = "buildWhereClause" =>
        /\ ~res.panic
        /\ arg.clauses = <<>> => (res.sql = <<>> /\ res.count = 0)
        /\ LET n == Len(arg.clauses)
           IN (n > 0 /\ arg.clauses[n].Expr = NestedExpr(<<>>)) =>
                 SubSeq(res.sql, Len(res.sql) - 1, Len(res.sql)) = <<"(", ")">>

(* A clause list as the claim words it: the first clause's text alone,   *)
(* then for each later clause a space, its connector, a space and its    *)
(* text; a Nested expression's text is its own list in parentheses.      *)
RECURSIVE Connected(_)
Connected(clauses) ==
    LET TextOf(c) == IF c.Expr.kind = "SimpleExpr" THEN c.Expr.expr
                     ELSE <<"(">> \o Connected(c.Expr.exprs) \o <<")">>
    IN IF Len(clauses) = 0 THEN <<>>
       ELSE IF Len(clauses) = 1 THEN TextOf(clauses[1])
       ELSE Connected(SubSeq(clauses, 1, Len(clauses) - 1))
                \o <<" ">> \o clauses[Len(clauses)].Type \o <<" ">>
                \o TextOf(clauses[Len(clauses)])

(* C24: in the text joinWhereClauses returns for a clause list, with the *)
(* lists of Nested expressions inside it, the first clause's connector   *)
(* is left out and each later clause's connector stands once, between    *)
(* single spaces, right before that clause's text; the text neither      *)
(* starts nor ends with a space.                                         *)
C24_ConnectorsBetweenClauses ==
    (res.fn = "joinWhereClauses" /\ ~res.panic) =>
        /\ res.sql = Connected(arg.clauses)
        /\ res.sql[1] # " "
        /\ res.sql[Len(res.sql)] # " "

(* a? OR (a? AND c): the OR of the clause opening the inner list is left out *)
C24_Witness ==
    /\ res.fn = "joinWhereClauses"
    /\ arg.clauses =
          <<WhereClause(AND_TYPE, SimpleExpr(<<"a", "?">>)),
            WhereClause(OR_TYPE, NestedExpr(
                <<WhereClause(OR_TYPE, SimpleExpr(<<"a", "?">>)),
                  WhereClause(AND_TYPE, SimpleExpr(<<"c">>))>>))>>
    /\ res.sql = <<"a", "?", " ", "O", "R", " ", "(", "a", "?", " ",
                   "A", "N", "D", " ", "c", ")">>

----------------------------------------------------------------------------
(* What Insert and Update read back *)

(* The RETURNING list of a statement: what follows the keyword. *)
ReturningOf(sql) ==
    LET k == IF AtomAt(sql, ") RETURNING ") # 0 THEN AtomAt(sql, ") RETURNING ")
             ELSE AtomAt(sql, "RETURNING ")
    IN SubSeq(sql, k + 1, Len(sql))

(* The Go fields of the struct that carry a db tag, in declared order. *)
Tagged(fields) == SelectSeq(fields, LAMBDA g : g.db # <<>> /\ g.db # <<"-">>)

(* C25: the RETURNING list of the statement Insert and Update run is the  *)
(* db tags of all tagged fields of the struct in declared order, whatever *)
(* SkipOnInsert and the override fields are, and the row is scanned into  *)
(* the addresses of those same fields in that same order.                 *)
C25_ReturningWholeRecord ==
    (res.fn \in RecordOps /\ res.out.executed) =>
        LET tagged == Tagged(StructFields)
        IN /\ SplitList(ReturningOf(res.out.sql)) =
                 [n \in 1..Len(tagged) |-> Join(<<tagged[n].db>>, <<>>)]
           /\ res.out.scanned = [n \in 1..Len(tagged) |-> tagged[n].addr]

(* Insert skipping both columns of the struct, with an override field *)
C25_Witness ==
    /\ res.fn = "InsertWithOptions"
    /\ res.out.executed
    /\ res.skipColumns = <<<<"b">>, <<"a">>>>
    /\ Len(arg.Fields) > 0
    /\ Len(res.out.fields) = 0
    /\ SplitList(ReturningOf(res.out.sql)) = <<<<"a">>, <<"b">>>>
    /\ res.out.scanned = <<"&v.A", "&v.B">>

(* C26: the values InsertWithOptions hands to the executor are as many   *)
(* as the `$n` placeholders of the VALUES list, and the i-th value is    *)
(* the value of the field whose placeholder is `$i`, a Bound field with  *)
(* the value nil included.                                               *)
C26_InsertValuesMatchPlaceholders ==
    (res.fn = "InsertWithOptions" /\ res.out.executed) =>
        LET fields == res.out.fields
            places == InsertPlaceholders(res.out.sql)
            bound == {j \in 1..Len(fields) : places[j][1] = "$"}
        IN /\ Len(places) = Len(fields)
           /\ Len(res.out.values) = Cardinality(bound)
           /\ \A j \in bound :
                 res.out.values[Atoi(Tail(places[j]))] = GetValue(fields[j])

----------------------------------------------------------------------------
(* The identifier column *)

(* The column a statement's WHERE clause compares to a placeholder: the  *)
(* text between the keyword and ` = $n`.  The UPDATE statement's keyword *)
(* atom holds its column.                                                *)
KeyColumn(sql) ==
    IF AtomAt(sql, " WHERE id = ") # 0 THEN <<"i", "d">>
    ELSE LET w == AtomAt(sql, " WHERE ")
             rest == SubSeq(sql, w + 1, Len(sql))
         IN SubSeq(rest, 1, AtomAt(rest, " ") - 1)

Configured(idColumn) == IF idColumn = <<>> THEN <<"i", "d">> ELSE idColumn

(* C28: the statements of Get, of Delete and of Update compare one and   *)
(* the same column to the id placeholder: the identifier column the DB   *)
(* is configured with, id when none is set.                              *)
C28_OneIdentifierColumn ==
    /\ (res.fn \in {"Delete", "UpdateWithOptions"} /\ res.out.executed) =>
           KeyColumn(res.out.sql) = Configured(res.idColumn)
    /\ (call.op = "Get" /\ call.executed) =>
           KeyColumn(call.sql) = Configured(call.idColumn)

----------------------------------------------------------------------------
(* The rewriter read backwards *)

(* sql with each `$<digits>` token, taken as long as digits go on, *)
(* replaced by a marker.                                           *)
RECURSIVE MarkersBack(_, _)
MarkersBack(sql, i) ==
    IF i > Len(sql) THEN <<>>
    ELSE IF sql[i] = "$" /\ DigitRunEnd(sql, i + 1) > i
         THEN <<Marker>> \o MarkersBack(sql, DigitRunEnd(sql, i + 1) + 1)
         ELSE <<sql[i]>> \o MarkersBack(sql, i + 1)

NoDigitAfterMarker(text) ==
    \A i \in UnquotedMarkers(text) : i = Len(text) \/ ~IsDigit(text[i + 1])

(* C29, as stated: for every text without a `$` and every offset, the  *)
(* text replacePlaceholder returns, with each `$<digits>` token put    *)
(* back to `?`, is the input text.                                     *)
C29_MarkersBackGivesInput ==
    res.fn = "replacePlaceholder" => MarkersBack(res.sql, 1) = arg.expr

(* C29, amended: the same for every text without a `$` in which no     *)
(* unquoted marker is directly followed by a digit: every character    *)
(* that is not an unquoted marker, quoted markers and quotes included, *)
(* is kept in place and order.                                         *)
C29_MarkersBackGivesInputNoDigitAfter ==
    (res.fn = "replacePlaceholder" /\ NoDigitAfterMarker(arg.expr)) =>
        MarkersBack(res.sql, 1) = arg.expr

(* a text with a digit, a quoted marker and a marker that is replaced *)
C29_Witness ==
    /\ res.fn = "replacePlaceholder"
    /\ NoDigitAfterMarker(arg.expr)
    /\ res.count > 0
    /\ \E i \in 1..Len(arg.expr) : IsDigit(arg.expr[i])
    /\ \E i \in 1..Len(arg.expr) :
          arg.expr[i] = Marker /\ i \notin UnquotedMarkers(arg.expr)
    /\ res.sql # arg.expr

----------------------------------------------------------------------------
(* Page arithmetic *)

(* C30: the offset Page binds is the exact product (page - 1) * pageSize *)
(* for every page number and page size >= 1 that a uint holds: it never  *)
(* wraps around.                                                         *)
C30_OffsetIsExactProduct ==
    (call.op = "Page" /\ call.executed) =>
        /\ call.values[Len(call.values) - 1] = Uint(call.pageSize)
        /\ call.values[Len(call.values)] = Uint((call.page - 1) * call.pageSize)

====
